---- MODULE Spec2Model ----
(***************************************************************************)
(* Cart handling of the foot-ware storefront (ecommerce/views.py,          *)
(* ecommerce/models.py).  The database runs in autocommit mode             *)
(* (foot_ware/settings.py sets no ATOMIC_REQUESTS), so every ORM statement *)
(* of a view is a transaction of its own: a request is a process whose     *)
(* steps are the statements of its view, and requests of different         *)
(* workers interleave between statements.                                  *)
(*                                                                         *)
(*   Spec     up to MaxRequests requests interleave freely; the catalog is *)
(*            not edited meanwhile                                         *)
(*   SpecSeq  one request at a time (each view runs from start to end),    *)
(*            the admin edits stock between requests                       *)
(*   SpecPriced  a user reads the cart page of a filled cart while the     *)
(*            admin edits the catalog prices                               *)
(*   SpecCoupon  Coupon.is_valid() on a coupon row, as time passes         *)
(*   SpecOrders  orders are stored, saved again and marked by the admin    *)
(*            bulk actions; the generate_variants command is run           *)
(***************************************************************************)
EXTENDS Integers, Sequences, FiniteSets, TLC

\* ------------------------------------------------------------------ bounds
MaxStock == 2        \* the admin sets stock quantities in 0..MaxStock
MaxQty == 1          \* requested quantities range over -1..MaxQty
MaxCarts == 2        \* Cart rows ever inserted
MaxItemId == 2       \* CartItem ids ever handed out
MaxDebt == 1         \* add_to_cart lowers a line's quantity down to -MaxDebt
MaxRequests == 3     \* requests served under Spec, where they interleave
MaxPrice == 3        \* the admin sets base prices in 1..MaxPrice
MaxAdjustment == 1   \* and price adjustments in -MaxAdjustment..MaxAdjustment
MaxTime == 1         \* the clock and the coupon's window range over 0..MaxTime
MaxUses == 2         \* usage_limit and used_count of a coupon range over 0..MaxUses
MaxOrders == 2       \* Order rows ever inserted
MaxVariantId == 4    \* ShoeVariant ids ever handed out (generate_variants makes new rows)
MaxAddressId == 2    \* Address rows ever stored
MaxVariantRows == 4  \* ShoeVariant rows with a sku

\* ------------------------------------------------------------ the universe
Procs == {"p1", "p2"}                 \* request workers
SeqWorker == "p1"                     \* the worker that serves every request under SpecSeq
Users == {"u1"}                       \* authenticated users
Anons == {"a1"}                       \* anonymous browsers (one session each)
Clients == Users \cup Anons
Variants == {1, 2}                    \* active ShoeVariant rows
QtyInputs == (0 - 1)..MaxQty          \* int(request.POST.get('quantity', 1))
ItemIdInputs == 1..MaxItemId          \* data.get('item_id')
StockValues == 0..MaxStock
InitStock == <<1, 2>>                 \* the seeded stock of variants 1 and 2
NULL == "NULL"                        \* SQL NULL / Python None in a text column
NoId == 0                             \* absent primary key / absent session entry
Areas == {1}                          \* DeliveryArea rows
AreaFee == <<2>>                      \* DeliveryArea.shipping_fee, by area id
\* the seeded catalog prices: Shoe.base_price of the one shoe the variants
\* belong to, and ShoeVariant.price_adjustment by variant id
SeedPrice == [base_price |-> 3, price_adjustment |-> <<0, 1>>]
\* the seeded address book: u1 has a default shipping address in area 1
SeedAddresses ==
    {[id |-> 1, user |-> "u1", address_type |-> "shipping", is_default |-> TRUE,
      delivery_area |-> 1]}

VARIABLES
    stock,       \* ShoeVariant.stock_quantity, by variant id
    carts,       \* Cart rows; the row's id is its index (AUTOINCREMENT, never deleted)
    items,       \* CartItem rows: [id, cart, variant, quantity]
    nextItemId,  \* next AUTOINCREMENT id of CartItem
    session,     \* session store, by anonymous browser: [session_key, cart_id]
    req,         \* the request each worker is serving: position and locals
    started,     \* number of requests taken up under Spec
    base_price,        \* Shoe.base_price
    price_adjustment,  \* ShoeVariant.price_adjustment, by variant id
    addresses,         \* Address rows: [id, user, address_type, is_default, delivery_area]
    coupon,      \* the Coupon row: [is_active, valid_from, valid_to, usage_limit, used_count]
    now,         \* timezone.now()
    checked,     \* the last answer of Coupon.is_valid(): <<>> or <<answer>>
    orders,      \* Order rows: [id, order_number, status, payment_status, shipped_at,
                 \*              delivered_at, money]
    orderItems,  \* OrderItem rows: [order, variant, quantity, unit_price, total_price]
    variantIds,  \* ids of the ShoeVariant rows
    lastSave,    \* the last Order.save(): [kind, order_number, error]
    checkout,    \* the createOrder in progress: position, transaction and result
    payments,    \* Payment rows: [checkout_request_id, order, status, mpesa_receipt]
    lastCallback,\* the last applyCallback: [id, outcome, receipt, result]
    addrSave,    \* Address.save in progress, by worker: [pc, inst]
    shoeVariants,\* ShoeVariant rows: [id, shoe, color, size, sku]
    variantSave  \* the last ShoeVariant save: what was saved and how it ended

cartVars == <<stock, carts, items, nextItemId, session, req, started>>
priceVars == <<base_price, price_adjustment, addresses>>
couponVars == <<coupon, now, checked>>
orderVars == <<orders, orderItems, variantIds, lastSave>>
flowVars == <<checkout, payments, lastCallback>>
saveVars == <<addrSave, shoeVariants, variantSave>>
restVars == <<couponVars, orderVars, flowVars, saveVars>>
vars == <<cartVars, priceVars, restVars>>

\* --------------------------------------------------------------- helpers
RECURSIVE SumQuantity(_)
SumQuantity(S) ==
    IF S = {} THEN 0
    ELSE LET i == CHOOSE x \in S : TRUE
         IN  i.quantity + SumQuantity(S \ {i})

\* cart.items: the CartItem rows whose cart is c
CartItems(its, c) == {i \in its : i.cart = c}

\* alternative of TotalItems: counts the lines
TotalItemsCountingLines(its, c) == Cardinality(CartItems(its, c))

\* Cart.total_items: aggregate(total=Sum('quantity'))['total'] or 0.
\* Sum over no rows is None (here <<>>), and None or 0 is 0.
TotalItems(its, c) ==
    LET total == IF CartItems(its, c) = {} THEN <<>>
                 ELSE <<SumQuantity(CartItems(its, c))>>
    IN  IF total = <<>> THEN 0
        ELSE IF total[1] = 0 THEN 0 ELSE total[1]

\* Cart rows matching a lookup
CartIds == 1..Len(carts)
CartsOfUser(u) == {c \in CartIds : carts[c].user = u}
CartsOfSession(k) == {c \in CartIds : carts[c].session_key = k /\ carts[c].user = NULL}

\* unique_together = ['cart', 'variant'] of CartItem: the rows an insert of (c, v) clashes with
SameCartVariant(its, c, v) == {i \in its : i.cart = c /\ i.variant = v}

ItemById(its, id) == {i \in its : i.id = id}

\* Model.save() of a fetched row: UPDATE by primary key; when no row was updated
\* the row is INSERTed again under its old id (and may then clash with the
\* unique constraint: "clash").
SaveItem(its, id, c, v, q) ==
    IF ItemById(its, id) /= {}
    THEN [ok |-> TRUE,
          items |-> {IF i.id = id THEN [i EXCEPT !.quantity = q] ELSE i : i \in its}]
    ELSE IF SameCartVariant(its, c, v) /= {}
    THEN [ok |-> FALSE, items |-> its]
    ELSE [ok |-> TRUE,
          items |-> its \cup {[id |-> id, cart |-> c, variant |-> v, quantity |-> q]}]

\* ------------------------------------------------------------ request state
IdleReq ==
    [pc |-> "idle", op |-> "none", client |-> "none",
     variant_id |-> NoId, quantity |-> 0, item_id |-> NoId,
     v_stock |-> 0, cart |-> NoId,
     ci_id |-> NoId, ci_qty |-> 0, ci_variant |-> NoId, created |-> FALSE,
     sess_key |-> NULL, sess_cart |-> NoId, sess_mod |-> FALSE,
     result |-> "none", counted |-> FALSE, cart_count |-> 0, item_removed |-> FALSE,
     subtotal |-> 0, shipping_fee |-> 0, total |-> 0,
     after_clear |-> NoId,
     raw_variant |-> <<>>, raw_quantity |-> <<>>, ajax |-> TRUE,
     pre |-> {}, overlap |-> {}]

Running(p) == req[p].pc \notin {"idle", "done"}

\* the catalog and the address book as seeded
PriceInit ==
    /\ base_price = SeedPrice.base_price
    /\ price_adjustment = [v \in Variants |-> SeedPrice.price_adjustment[v]]
    /\ addresses = SeedAddresses

\* no order yet; the variants are those of the catalog
NoSave == [kind |-> "none", order_number |-> "", error |-> FALSE]

\* the tables a createOrder reads and writes, as one value
Db(st, its, ords, olines, used) ==
    [stock |-> st, items |-> its, orders |-> ords, orderItems |-> olines,
     used_count |-> used]

NoDb == Db(<<>>, {}, {}, {}, 0)

NoCheckout ==
    [pc |-> "idle", cart |-> NoId, with_coupon |-> FALSE, result |-> "none",
     pre |-> NoDb, work |-> NoDb]

\* ------------------------------------------------------- ShoeVariant.sku
\* Names are sequences of characters.  The catalogue: one brand, three shoes
\* (the third without a brand), two colours and three sizes.
BrandNames == << <<"N", "i", "k", "e">> >>
ShoeRows ==
    << [name |-> <<"A", "i", "r", "M", "a", "x">>, brand |-> <<1>>],
       [name |-> <<"A", "i", "r", "J", "e", "t">>, brand |-> <<1>>],
       [name |-> <<"R", "u", "n">>, brand |-> <<>>] >>
ColorNames == << <<"R", "e", "d">>, <<"B", "l", "u", "e">> >>
SizeRows ==
    << [size |-> <<"9">>, system |-> "US"],
       [size |-> <<"9">>, system |-> "UK"],
       [size |-> <<"9", ".", "5">>, system |-> "US"] >>

\* str.upper()
Upper(str) ==
    LET lower == <<"a", "b", "c", "d", "e", "f", "g", "h", "i", "j", "k", "l", "m",
                   "n", "o", "p", "q", "r", "s", "t", "u", "v", "w", "x", "y", "z">>
        upper == <<"A", "B", "C", "D", "E", "F", "G", "H", "I", "J", "K", "L", "M",
                   "N", "O", "P", "Q", "R", "S", "T", "U", "V", "W", "X", "Y", "Z">>
        up(ch) == IF \E k \in DOMAIN lower : lower[k] = ch
                  THEN upper[CHOOSE k \in DOMAIN lower : lower[k] = ch]
                  ELSE ch
    IN [k \in DOMAIN str |-> up(str[k])]

\* name[:3]
FirstThree(str) == SubSeq(str, 1, IF Len(str) < 3 THEN Len(str) ELSE 3)

\* str(size).replace('.', '_')
ReplaceDot(str) == [k \in DOMAIN str |-> IF str[k] = "." THEN "_" ELSE str[k]]

\* f"{brand_code}_{shoe_code}_{color_code}_{size_code}"
BrandCode(sh) ==
    IF ShoeRows[sh].brand /= <<>>
    THEN Upper(FirstThree(BrandNames[ShoeRows[sh].brand[1]]))
    ELSE <<"S", "H", "O">>
GeneratedSku(sh, co, sz) ==
    BrandCode(sh) \o <<"_">> \o Upper(FirstThree(ShoeRows[sh].name)) \o <<"_">>
        \o Upper(FirstThree(ColorNames[co])) \o <<"_">> \o ReplaceDot(SizeRows[sz].size)

\* if not self.sku: self.sku = ...
SkuOnSave(sku, sh, co, sz) == IF sku = <<>> THEN GeneratedSku(sh, co, sz) ELSE sku

\* the rows of variants 1 and 2, saved without a sku
SeedShoeVariants ==
    {[id |-> 1, shoe |-> 1, color |-> 1, size |-> 1, sku |-> GeneratedSku(1, 1, 1)],
     [id |-> 2, shoe |-> 1, color |-> 2, size |-> 1, sku |-> GeneratedSku(1, 2, 1)]}

NoVariantSave ==
    [kind |-> "none", shoe |-> 0, color |-> 0, size |-> 0, sku_in |-> <<>>,
     sku_before |-> <<>>, sku |-> <<>>, clash |-> "none"]

\* no Address instance is being saved
NoAddrSave ==
    [pc |-> "idle",
     inst |-> [id |-> NoId, user |-> NULL, address_type |-> NULL,
               is_default |-> FALSE, delivery_area |-> 1]]

NoCallback == [id |-> "none", outcome |-> "none", receipt |-> NULL, result |-> "none"]

\* no createOrder has been started and no payment initiated
FlowInit ==
    /\ checkout = NoCheckout
    /\ payments = {}
    /\ lastCallback = NoCallback
    /\ addrSave = [p \in Procs |-> NoAddrSave]
    /\ shoeVariants = SeedShoeVariants
    /\ variantSave = NoVariantSave

OrdersInit ==
    /\ orders = {}
    /\ orderItems = {}
    /\ variantIds = Variants
    /\ lastSave = NoSave

\* a coupon of the Coupon defaults (used_count 0, is_active True) without a
\* usage limit; is_valid() has not been called
RestInit ==
    /\ coupon = [is_active |-> TRUE, valid_from |-> 0, valid_to |-> 0,
                 usage_limit |-> <<>>, used_count |-> 0]
    /\ now = 0
    /\ checked = <<>>
    /\ OrdersInit
    /\ FlowInit

Init ==
    /\ stock = [v \in Variants |-> InitStock[v]]
    /\ carts = <<>>
    /\ items = {}
    /\ nextItemId = 1
    /\ session = [a \in Anons |-> [session_key |-> NULL, cart_id |-> NoId]]
    /\ req = [p \in Procs |-> IdleReq]
    /\ started = 0
    /\ PriceInit
    /\ RestInit

\* ------------------------------------------------------- request lifecycle
\* A request that carries no session cookie belongs to a session of its own,
\* so a browser without a session key has at most one request in flight.
\* The workers are alike: the other worker is used once SeqWorker has been.
MayStart(p, c, seq) ==
    /\ ~Running(p)
    /\ seq => p = SeqWorker /\ \A q \in Procs : ~Running(q)
    /\ ~seq => started < MaxRequests /\ (p /= SeqWorker => req[SeqWorker].pc /= "idle")
    /\ c \in Anons /\ session[c].session_key = NULL
          => \A q \in Procs : ~(Running(q) /\ req[q].client = c)

\* The worker p takes up request r.  r.pre keeps the CartItem rows found at
\* that moment, overlap the workers serving a request at some time during
\* this one.  Under SpecSeq the finished requests are forgotten here, except
\* that an add_to_cart keeps in after_clear the cart that the request just
\* before it, a clear_cart of the same client, has emptied.
Begin(p, r, seq) ==
    /\ started' = IF seq THEN started ELSE started + 1
    /\ req' = [q \in Procs |->
                IF q = p
                THEN [r EXCEPT !.pre = items,
                             !.after_clear =
                                 IF seq /\ r.op = "add" /\ req[p].pc = "done"
                                    /\ req[p].op = "clear" /\ req[p].result = "success"
                                    /\ req[p].client = r.client
                                 THEN req[p].cart ELSE NoId,
                             !.sess_key = IF r.client \in Anons
                                          THEN session[r.client].session_key ELSE NULL,
                             !.overlap = {w \in Procs \ {p} : Running(w)}]
              ELSE IF Running(q) THEN [req[q] EXCEPT !.overlap = @ \cup {p}]
              ELSE IF seq THEN IdleReq
              ELSE req[q]]

\* SessionMiddleware.process_response: a modified session is saved with the
\* request's data, under a fresh key when it had none.
SavedSession(r) ==
    IF r.client \in Anons /\ r.sess_mod
    THEN [session EXCEPT ![r.client] =
             [session_key |-> IF r.sess_key = NULL THEN r.client ELSE r.sess_key,
              cart_id |-> r.sess_cart]]
    ELSE session

\* what is kept of a served request: its inputs, its cart and its response
Served(r, result) ==
    [r EXCEPT !.pc = "done", !.result = result, !.v_stock = 0,
              !.ci_id = NoId, !.ci_qty = 0, !.ci_variant = NoId, !.created = FALSE,
              !.sess_key = NULL, !.sess_cart = NoId, !.sess_mod = FALSE]

\* The view returns a response (JSON or redirect) with the given result.
Respond(p, r, result) ==
    /\ UNCHANGED started
    /\ req' = [req EXCEPT ![p] = Served(r, result)]
    /\ session' = SavedSession(r)

\* The view raises past its own handlers: the response is a 500 and the
\* session is not saved.
Crash(p, r) ==
    /\ UNCHANGED started
    /\ req' = [req EXCEPT ![p] = Served(r, "crash")]
    /\ UNCHANGED session

Goto(p, r, pc) ==
    /\ UNCHANGED started
    /\ req' = [req EXCEPT ![p] = [r EXCEPT !.pc = pc]]
    /\ UNCHANGED session

\* ------------------------------------------------------------ add_to_cart
\* if variant.stock_quantity < quantity
StockBelow(stock_quantity, quantity) == stock_quantity < quantity

\* new_quantity = cart_item.quantity + quantity
NewQuantityOverwriting(old, quantity) == quantity
NewQuantity(old, quantity) == old + quantity

\* if new_quantity > variant.stock_quantity
ExceedsStockLax(new_quantity, stock_quantity) == new_quantity > stock_quantity + 1
ExceedsStock(new_quantity, stock_quantity) == new_quantity > stock_quantity

\* add_to_cart reads variant.stock_quantity and never assigns or saves it.
StockAfterAddReserving(st, v, quantity) == [st EXCEPT ![v] = @ - quantity]
StockAfterAdd(st, v, quantity) == st

\* The Http404 of get_object_or_404 is raised inside the view's try block:
\* `except Exception` answers it like any other exception, with the view's
\* failure JSON ('An error occurred ...', status 200), not with a 404 page.
Http404Caught == "error"

StartAdd(p, c, v, q, seq) ==
    /\ MayStart(p, c, seq)
    /\ Begin(p, [IdleReq EXCEPT !.pc = "add_variant", !.op = "add", !.client = c,
                                !.variant_id = v, !.quantity = q], seq)
    /\ UNCHANGED <<stock, carts, items, nextItemId, session>>

\* A POST field is absent (<<>>) or present with its text (<<text>>), the
\* text being a sequence of characters.
DigitChars == <<"0", "1", "2", "3", "4", "5", "6", "7", "8", "9">>

\* the digits of an integer literal: the text without its sign
Unsigned(str) == IF str /= <<>> /\ Head(str) \in {"-", "+"} THEN Tail(str) ELSE str

\* int(text) does not raise ValueError
IsInt(str) ==
    /\ Unsigned(str) /= <<>>
    /\ \A k \in DOMAIN Unsigned(str) :
          \E d \in DOMAIN DigitChars : DigitChars[d] = Unsigned(str)[k]

RECURSIVE DigitsValue(_)
DigitsValue(str) ==
    IF str = <<>> THEN 0
    ELSE 10 * DigitsValue(SubSeq(str, 1, Len(str) - 1))
         + (CHOOSE d \in DOMAIN DigitChars : DigitChars[d] = str[Len(str)]) - 1

\* int(text)
IntOf(str) ==
    IF Head(str) = "-" THEN 0 - DigitsValue(Unsigned(str)) ELSE DigitsValue(Unsigned(str))

\* the texts a client posts as quantity and as variant_id; the variants with
\* an id outside Variants are not stored or not active
RawQuantities ==
    {<<>>, << <<"1">> >>, << <<"0">> >>, << <<"-", "1">> >>, << <<"a", "b", "c">> >>,
     << <<>> >>, << <<"1", ".", "5">> >>}
RawVariantIds == {<<>>, << <<"1">> >>, << <<"2">> >>, << <<"3">> >>, << <<"x">> >>}

\* the id that get_object_or_404(ShoeVariant, id=variant_id, is_active=True)
\* finds: NoId when the field is absent or not a number (no row matches, or
\* the lookup raises ValueError inside the try block)
PostedVariantId(raw) ==
    IF raw /= <<>> /\ IsInt(raw[1]) THEN IntOf(raw[1]) ELSE NoId

\* the POST as it arrives: the fields are text, X-Requested-With is set or not
StartAddPost(p, c, raw_variant, raw_quantity, ajax, seq) ==
    /\ MayStart(p, c, seq)
    /\ Begin(p, [IdleReq EXCEPT !.pc = "add_parse", !.op = "add", !.client = c,
                                !.raw_variant = raw_variant,
                                !.raw_quantity = raw_quantity, !.ajax = ajax], seq)
    /\ UNCHANGED <<stock, carts, items, nextItemId, session>>

\* variant_id = request.POST.get('variant_id');
\* quantity = int(request.POST.get('quantity', 1)), before the try block
AddParse(p) ==
    LET r == req[p] IN
    /\ r.pc = "add_parse"
    /\ IF r.raw_quantity /= <<>> /\ ~IsInt(r.raw_quantity[1])
       THEN Crash(p, r)
       ELSE Goto(p, [r EXCEPT !.quantity = IF r.raw_quantity = <<>> THEN 1
                                           ELSE IntOf(r.raw_quantity[1]),
                              !.variant_id = PostedVariantId(r.raw_variant)],
                 "add_variant")
    /\ UNCHANGED <<stock, carts, items, nextItemId>>

\* variant = get_object_or_404(...); the first stock check.  When no active
\* variant has the id, the except block answers: with the failure JSON for
\* an AJAX request, else by redirect(..., slug=variant.shoe.slug), where
\* variant was never bound (UnboundLocalError, raised past the view).
AddGetVariant(p) ==
    LET r == [req[p] EXCEPT !.v_stock = stock[req[p].variant_id]] IN
    /\ req[p].pc = "add_variant"
    /\ IF req[p].variant_id \notin Variants
       THEN IF req[p].ajax THEN Respond(p, req[p], Http404Caught) ELSE Crash(p, req[p])
       ELSE IF StockBelow(r.v_stock, r.quantity)
       THEN Respond(p, r, "insufficient")
       ELSE Goto(p, r, "add_cart")
    /\ UNCHANGED <<stock, carts, items, nextItemId>>

\* Cart.objects.get_or_create(user=...): the get; for an anonymous request
\* session.get('cart_id') and Cart.objects.get(id=cart_id, user=None)
AddGetCart(p) ==
    LET r == req[p]
        c == r.client
        mine == CartsOfUser(c)
        cid == session[c].cart_id
        ra == [r EXCEPT !.sess_cart = cid]
    IN
    /\ r.pc = "add_cart"
    /\ IF c \in Users
       THEN IF mine = {} THEN Goto(p, r, "add_cart_create")
            ELSE IF Cardinality(mine) = 1
            THEN Goto(p, [r EXCEPT !.cart = CHOOSE x \in mine : TRUE], "add_item")
            ELSE Respond(p, r, "error")
       ELSE IF cid /= NoId /\ cid \in CartIds /\ carts[cid].user = NULL
            THEN Goto(p, [ra EXCEPT !.cart = cid], "add_item")
            ELSE Goto(p, ra, "add_cart_create")
    /\ UNCHANGED <<stock, carts, items, nextItemId>>

\* the create of get_or_create(user=...); for an anonymous request
\* Cart.objects.create(session_key=request.session.session_key) and
\* request.session['cart_id'] = cart.id
AddCreateCart(p) ==
    LET r == req[p]
        c == r.client
        id == Len(carts) + 1
    IN
    /\ r.pc = "add_cart_create"
    /\ Len(carts) < MaxCarts
    /\ IF c \in Users
       THEN /\ carts' = Append(carts, [user |-> c, session_key |-> NULL])
            /\ Goto(p, [r EXCEPT !.cart = id], "add_item")
       ELSE /\ carts' = Append(carts, [user |-> NULL, session_key |-> r.sess_key])
            /\ Goto(p, [r EXCEPT !.cart = id, !.sess_cart = id, !.sess_mod = TRUE],
                    "add_item")
    /\ UNCHANGED <<stock, items, nextItemId>>

\* get_or_create returned an existing row (created is False): the cumulative
\* stock check on the fetched quantity and the stock read in AddGetVariant
AddFound(p, r, i) ==
    LET rf == [r EXCEPT !.ci_id = i.id, !.ci_qty = i.quantity,
                        !.ci_variant = i.variant, !.created = FALSE]
    IN  IF ExceedsStock(NewQuantity(i.quantity, r.quantity), r.v_stock)
        THEN Respond(p, rf, "insufficient")
        ELSE Goto(p, rf, "add_item_save")

\* CartItem.objects.get_or_create(cart=cart, variant=variant, ...): the get
AddGetItem(p) ==
    LET r == req[p]
        found == SameCartVariant(items, r.cart, r.variant_id)
    IN
    /\ r.pc = "add_item"
    /\ IF found = {} THEN Goto(p, r, "add_item_create")
       ELSE AddFound(p, r, CHOOSE i \in found : TRUE)
    /\ UNCHANGED <<stock, carts, items, nextItemId>>

\* the create of get_or_create: the INSERT, or on IntegrityError (the unique
\* constraint) the get again
AddCreateItem(p) ==
    LET r == req[p]
        found == SameCartVariant(items, r.cart, r.variant_id)
    IN
    /\ r.pc = "add_item_create"
    /\ IF found /= {}
       THEN /\ AddFound(p, r, CHOOSE i \in found : TRUE)
            /\ UNCHANGED <<stock, items, nextItemId>>
       ELSE /\ nextItemId <= MaxItemId
            /\ items' = items \cup {[id |-> nextItemId, cart |-> r.cart,
                                     variant |-> r.variant_id, quantity |-> r.quantity]}
            /\ nextItemId' = nextItemId + 1
            /\ stock' = StockAfterAdd(stock, r.variant_id, r.quantity)
            /\ Goto(p, [r EXCEPT !.ci_id = nextItemId, !.ci_qty = r.quantity,
                                 !.ci_variant = r.variant_id, !.created = TRUE],
                    "add_respond")
    /\ UNCHANGED carts

\* cart_item.quantity = new_quantity; cart_item.save()
AddSaveItem(p) ==
    LET r == req[p]
        q == NewQuantity(r.ci_qty, r.quantity)
        saved == SaveItem(items, r.ci_id, r.cart, r.variant_id, q)
    IN
    /\ r.pc = "add_item_save"
    /\ q >= 0 - MaxDebt
    /\ items' = saved.items
    /\ IF saved.ok
       THEN /\ stock' = StockAfterAdd(stock, r.variant_id, r.quantity)
            /\ Goto(p, [r EXCEPT !.ci_qty = q], "add_respond")
       ELSE /\ UNCHANGED stock
            /\ Respond(p, r, "error")
    /\ UNCHANGED <<carts, nextItemId>>

\* the success response, for an AJAX request with 'cart_count': cart.total_items
AddRespond(p) ==
    LET r == req[p] IN
    /\ r.pc = "add_respond"
    /\ Respond(p, [r EXCEPT !.counted = TRUE,
                            !.cart_count = TotalItems(items, r.cart)], "success")
    /\ UNCHANGED <<stock, carts, items, nextItemId>>

AddStep(p) ==
    \/ AddParse(p)
    \/ AddGetVariant(p)
    \/ AddGetCart(p)
    \/ AddCreateCart(p)
    \/ AddGetItem(p)
    \/ AddCreateItem(p)
    \/ AddSaveItem(p)
    \/ AddRespond(p)

\* ------------------------------------------------------ get_or_create_cart
\* the views that resolve their cart with get_or_create_cart
CartPc(c) == IF c \in Anons /\ session[c].session_key = NULL
             THEN "goc_session" ELSE "goc_get"

\* where the view goes on once it has its cart
AfterCart(op) ==
    CASE op = "update"  -> "upd_item"
      [] op = "remove"  -> "rem_item"
      [] op = "clear"   -> "clr_delete"
      [] op = "summary" -> "sum_read"

\* an exception in the view: update_cart_item, remove_cart_item and clear_cart
\* catch it (except Exception) and answer with a failure; cart_summary does not
Raise(p, r) ==
    IF r.op = "summary" THEN Crash(p, r) ELSE Respond(p, r, "error")

\* if not session_key: request.session.create()
GocSession(p) ==
    LET r == req[p]
        c == r.client
    IN
    /\ r.pc = "goc_session"
    /\ UNCHANGED started
    /\ session' = [session EXCEPT ![c] = [session_key |-> c, cart_id |-> NoId]]
    /\ req' = [req EXCEPT ![p] = [r EXCEPT !.pc = "goc_get", !.sess_key = c,
                                           !.sess_mod = TRUE]]
    /\ UNCHANGED <<stock, carts, items, nextItemId>>

\* Cart.objects.get_or_create(user=..., defaults=...) or
\* Cart.objects.get_or_create(session_key=..., user=None): the get
GocGet(p) ==
    LET r == req[p]
        c == r.client
        mine == IF c \in Users THEN CartsOfUser(c) ELSE CartsOfSession(r.sess_key)
    IN
    /\ r.pc = "goc_get"
    /\ IF mine = {} THEN Goto(p, r, "goc_create")
       ELSE IF Cardinality(mine) = 1
       THEN Goto(p, [r EXCEPT !.cart = CHOOSE x \in mine : TRUE], AfterCart(r.op))
       ELSE Raise(p, r)
    /\ UNCHANGED <<stock, carts, items, nextItemId>>

\* the create of get_or_create
GocCreate(p) ==
    LET r == req[p]
        c == r.client
    IN
    /\ r.pc = "goc_create"
    /\ Len(carts) < MaxCarts
    /\ carts' = Append(carts, IF c \in Users
                              THEN [user |-> c, session_key |-> NULL]
                              ELSE [user |-> NULL, session_key |-> r.sess_key])
    /\ Goto(p, [r EXCEPT !.cart = Len(carts) + 1], AfterCart(r.op))
    /\ UNCHANGED <<stock, items, nextItemId>>

\* get_object_or_404(CartItem, id=item_id, cart=cart)
OwnItemAnyCart(its, id, c) == {i \in its : i.id = id}
OwnItem(its, id, c) == {i \in its : i.id = id /\ i.cart = c}

\* ------------------------------------------------------- update_cart_item
\* if quantity <= 0
RemovesLineStrict(quantity) == quantity < 0
RemovesLine(quantity) == quantity <= 0

\* if quantity > cart_item.variant.stock_quantity
AboveStockLax(quantity, stock_quantity) == quantity > stock_quantity + 1
AboveStock(quantity, stock_quantity) == quantity > stock_quantity

\* The request carries X-Requested-With: XMLHttpRequest; without it
\* update_cart_item, remove_cart_item and clear_cart answer 'Invalid request'
\* and read and write nothing.
StartUpdate(p, c, id, q, seq) ==
    /\ MayStart(p, c, seq)
    /\ Begin(p, [IdleReq EXCEPT !.pc = CartPc(c), !.op = "update", !.client = c,
                                !.item_id = id, !.quantity = q], seq)
    /\ UNCHANGED <<stock, carts, items, nextItemId, session>>

UpdGetItem(p) ==
    LET r == req[p]
        found == OwnItem(items, r.item_id, r.cart)
        i == CHOOSE x \in found : TRUE
        rf == [r EXCEPT !.ci_id = i.id, !.ci_qty = i.quantity, !.ci_variant = i.variant]
    IN
    /\ r.pc = "upd_item"
    /\ IF found = {} THEN Respond(p, r, Http404Caught)
       ELSE IF RemovesLine(r.quantity) THEN Goto(p, rf, "upd_delete")
       ELSE Goto(p, rf, "upd_stock")
    /\ UNCHANGED <<stock, carts, items, nextItemId>>

\* cart_item.delete()
UpdDelete(p) ==
    LET r == req[p] IN
    /\ r.pc = "upd_delete"
    /\ items' = items \ ItemById(items, r.ci_id)
    /\ Goto(p, [r EXCEPT !.item_removed = TRUE], "upd_respond")
    /\ UNCHANGED <<stock, carts, nextItemId>>

\* cart_item.variant is fetched here: the stock of this moment
UpdCheckStock(p) ==
    LET r == [req[p] EXCEPT !.v_stock = stock[req[p].ci_variant]] IN
    /\ req[p].pc = "upd_stock"
    /\ IF AboveStock(r.quantity, r.v_stock)
       THEN Respond(p, r, "insufficient")
       ELSE Goto(p, r, "upd_save")
    /\ UNCHANGED <<stock, carts, items, nextItemId>>

\* cart_item.quantity = quantity; cart_item.save()
UpdSave(p) ==
    LET r == req[p]
        saved == SaveItem(items, r.ci_id, r.cart, r.ci_variant, r.quantity)
    IN
    /\ r.pc = "upd_save"
    /\ items' = saved.items
    /\ IF saved.ok THEN Goto(p, [r EXCEPT !.ci_qty = r.quantity], "upd_respond")
       ELSE Respond(p, r, "error")
    /\ UNCHANGED <<stock, carts, nextItemId>>

\* either success response: 'cart_count': cart.total_items
UpdRespond(p) ==
    LET r == req[p] IN
    /\ r.pc = "upd_respond"
    /\ Respond(p, [r EXCEPT !.counted = TRUE,
                            !.cart_count = TotalItems(items, r.cart)], "success")
    /\ UNCHANGED <<stock, carts, items, nextItemId>>

UpdateStep(p) ==
    \/ UpdGetItem(p)
    \/ UpdDelete(p)
    \/ UpdCheckStock(p)
    \/ UpdSave(p)
    \/ UpdRespond(p)

\* ------------------------------------------------------- remove_cart_item
StartRemove(p, c, id, seq) ==
    /\ MayStart(p, c, seq)
    /\ Begin(p, [IdleReq EXCEPT !.pc = CartPc(c), !.op = "remove", !.client = c,
                                !.item_id = id], seq)
    /\ UNCHANGED <<stock, carts, items, nextItemId, session>>

RemGetItem(p) ==
    LET r == req[p]
        found == OwnItem(items, r.item_id, r.cart)
        i == CHOOSE x \in found : TRUE
    IN
    /\ r.pc = "rem_item"
    /\ IF found = {} THEN Respond(p, r, Http404Caught)
       ELSE Goto(p, [r EXCEPT !.ci_id = i.id, !.ci_qty = i.quantity,
                              !.ci_variant = i.variant], "rem_delete")
    /\ UNCHANGED <<stock, carts, items, nextItemId>>

\* cart_item.delete()
RemDelete(p) ==
    LET r == req[p] IN
    /\ r.pc = "rem_delete"
    /\ items' = items \ ItemById(items, r.ci_id)
    /\ Goto(p, [r EXCEPT !.item_removed = TRUE], "rem_respond")
    /\ UNCHANGED <<stock, carts, nextItemId>>

RemRespond(p) ==
    LET r == req[p] IN
    /\ r.pc = "rem_respond"
    /\ Respond(p, [r EXCEPT !.counted = TRUE,
                            !.cart_count = TotalItems(items, r.cart)], "success")
    /\ UNCHANGED <<stock, carts, items, nextItemId>>

RemoveStep(p) ==
    \/ RemGetItem(p)
    \/ RemDelete(p)
    \/ RemRespond(p)

\* ------------------------------------------------------------- clear_cart
StartClear(p, c, seq) ==
    /\ MayStart(p, c, seq)
    /\ Begin(p, [IdleReq EXCEPT !.pc = CartPc(c), !.op = "clear", !.client = c], seq)
    /\ UNCHANGED <<stock, carts, items, nextItemId, session>>

\* cart.items.all().delete(), answered with 'cart_count': 0
ClrDelete(p) ==
    LET r == req[p] IN
    /\ r.pc = "clr_delete"
    /\ items' = items \ CartItems(items, r.cart)
    /\ Respond(p, [r EXCEPT !.counted = TRUE, !.cart_count = 0], "success")
    /\ UNCHANGED <<stock, carts, nextItemId>>

\* ----------------------------------------------------------- cart_summary
StartSummary(p, c, seq) ==
    /\ MayStart(p, c, seq)
    /\ Begin(p, [IdleReq EXCEPT !.pc = CartPc(c), !.op = "summary", !.client = c], seq)
    /\ UNCHANGED <<stock, carts, items, nextItemId, session>>

\* ShoeVariant.final_price: self.shoe.base_price + self.price_adjustment
FinalPriceIgnoringAdjustment(base, adjustment) == base
FinalPrice(base, adjustment) == base + adjustment

\* CartItem.unit_price: self.variant.final_price, read from the catalog rows
UnitPrice(i) == FinalPrice(base_price, price_adjustment[i.variant])

\* CartItem.total_price: self.unit_price * self.quantity
LineTotalPrice(i) == UnitPrice(i) * i.quantity

\* sum(item.total_price for item in ...): Cart.total_price and the subtotal of
\* cart_summary
RECURSIVE SumTotalPrice(_)
SumTotalPrice(S) ==
    IF S = {} THEN 0
    ELSE LET i == CHOOSE x \in S : TRUE
         IN  LineTotalPrice(i) + SumTotalPrice(S \ {i})

CartTotalPrice(its, c) == SumTotalPrice(CartItems(its, c))

\* request.user.addresses.filter(address_type='shipping', is_default=True):
\* the rows, and .first() of them (the lowest id), NoId when there is none
DefaultShippingRows(u) ==
    {a \in addresses : a.user = u /\ a.address_type = "shipping" /\ a.is_default}

DefaultShipping(u) ==
    IF DefaultShippingRows(u) = {} THEN NoId
    ELSE CHOOSE n \in {a.id : a \in DefaultShippingRows(u)} :
             \A a \in DefaultShippingRows(u) : n <= a.id

\* Address.shipping_fee: self.delivery_area.shipping_fee if self.delivery_area else 0
AddressShippingFee(a) == IF a.delivery_area /= NoId THEN AreaFee[a.delivery_area] ELSE 0

\* shipping_fee of cart_summary: 0, unless the user is authenticated and their
\* default shipping address has a delivery area
SummaryShippingFee(c) ==
    IF c \in Users /\ DefaultShipping(c) /= NoId
    THEN LET a == CHOOSE x \in addresses : x.id = DefaultShipping(c)
         IN  IF a.delivery_area /= NoId THEN AddressShippingFee(a) ELSE 0
    ELSE 0

\* cart_items = cart.items...; subtotal, shipping_fee and
\* total = subtotal + shipping_fee; the page is rendered
SumRead(p) ==
    LET r == req[p]
        subtotal == CartTotalPrice(items, r.cart)
        shipping_fee == SummaryShippingFee(r.client)
    IN
    /\ r.pc = "sum_read"
    /\ Respond(p, [r EXCEPT !.subtotal = subtotal, !.shipping_fee = shipping_fee,
                            !.total = subtotal + shipping_fee], "success")
    /\ UNCHANGED <<stock, carts, items, nextItemId>>

CartStep(p) ==
    \/ GocSession(p)
    \/ GocGet(p)
    \/ GocCreate(p)
    \/ ClrDelete(p)
    \/ SumRead(p)

\* ------------------------------------------------------------------ admin
\* ShoeVariantAdmin / ShoeVariantInline: stock_quantity is an editable field
AdminSetStock(v, s) ==
    /\ \A q \in Procs : ~Running(q)
    /\ s /= stock[v]
    /\ stock' = [stock EXCEPT ![v] = s]
    /\ req' = [q \in Procs |-> IdleReq]
    /\ UNCHANGED started
    /\ UNCHANGED <<carts, items, nextItemId, session>>

\* --------------------------------------------------------- specifications
Start(p, seq) ==
    \E c \in Clients :
        \/ \E v \in Variants, q \in QtyInputs : StartAdd(p, c, v, q, seq)
        \/ \E id \in ItemIdInputs, q \in QtyInputs : StartUpdate(p, c, id, q, seq)
        \/ \E id \in ItemIdInputs : StartRemove(p, c, id, seq)
        \/ StartClear(p, c, seq)
        \/ StartSummary(p, c, seq)

Step(p) ==
    \/ AddStep(p)
    \/ UpdateStep(p)
    \/ RemoveStep(p)
    \/ CartStep(p)

Admin == \E v \in Variants, s \in StockValues : AdminSetStock(v, s)

Next ==
    \/ (\E p \in Procs : Start(p, FALSE)) /\ UNCHANGED <<priceVars, restVars>>
    \/ (\E p \in Procs : Step(p)) /\ UNCHANGED <<priceVars, restVars>>

NextSeq ==
    \/ (\E p \in Procs : Start(p, TRUE)) /\ UNCHANGED <<priceVars, restVars>>
    \/ (\E p \in Procs : Step(p)) /\ UNCHANGED <<priceVars, restVars>>
    \/ Admin /\ UNCHANGED <<priceVars, restVars>>

Spec == Init /\ [][Next]_vars

\* add_to_cart POSTs as they arrive, one after the other
NextAddPost ==
    \/ (\E c \in Clients, raw_variant \in RawVariantIds,
           raw_quantity \in RawQuantities, ajax \in BOOLEAN :
            StartAddPost(SeqWorker, c, raw_variant, raw_quantity, ajax, TRUE))
          /\ UNCHANGED <<priceVars, restVars>>
    \/ (\E p \in Procs : Step(p)) /\ UNCHANGED <<priceVars, restVars>>

SpecAddPost == Init /\ [][NextAddPost]_vars

\* ----------------------------------------------------- the priced cart
PriceValues == 1..MaxPrice
AdjustmentValues == (0 - MaxAdjustment)..MaxAdjustment

\* ShoeAdmin: base_price is an editable field
AdminSetBasePrice(b) ==
    /\ \A q \in Procs : ~Running(q)
    /\ b /= base_price
    /\ base_price' = b
    /\ req' = [q \in Procs |-> IdleReq]
    /\ UNCHANGED <<stock, carts, items, nextItemId, session, started>>
    /\ UNCHANGED <<price_adjustment, addresses>>

\* ShoeVariantInline: price_adjustment is an editable field
AdminSetAdjustment(v, a) ==
    /\ \A q \in Procs : ~Running(q)
    /\ a /= price_adjustment[v]
    /\ price_adjustment' = [price_adjustment EXCEPT ![v] = a]
    /\ req' = [q \in Procs |-> IdleReq]
    /\ UNCHANGED <<stock, carts, items, nextItemId, session, started>>
    /\ UNCHANGED <<base_price, addresses>>

\* The carts u1 can have filled: a line of q1 pairs of variant 1 and a line of
\* q2 pairs of variant 2 (no line where the number is 0), with ids in the
\* order of insertion.
FilledCart(q1, q2) ==
    (IF q1 = 0 THEN {}
     ELSE {[id |-> 1, cart |-> 1, variant |-> 1, quantity |-> q1]})
    \cup
    (IF q2 = 0 THEN {}
     ELSE {[id |-> IF q1 = 0 THEN 1 ELSE 2, cart |-> 1, variant |-> 2, quantity |-> q2]})

\* the address books u1 can have: none, or one shipping address that is or is
\* not the default and has or has not a delivery area
AddressBooks ==
    {{}} \cup
    {{[id |-> 1, user |-> "u1", address_type |-> "shipping", is_default |-> d,
       delivery_area |-> a]} : d \in BOOLEAN, a \in Areas \cup {NoId}}

\* u1 has a cart with some lines; the catalog is as seeded
InitPriced ==
    /\ stock = [v \in Variants |-> MaxStock]
    /\ carts = <<[user |-> "u1", session_key |-> NULL]>>
    /\ \E q1, q2 \in StockValues : items = FilledCart(q1, q2)
    /\ nextItemId = Cardinality(items) + 1
    /\ session = [a \in Anons |-> [session_key |-> NULL, cart_id |-> NoId]]
    /\ req = [p \in Procs |-> IdleReq]
    /\ started = 0
    /\ base_price = SeedPrice.base_price
    /\ price_adjustment = [v \in Variants |-> SeedPrice.price_adjustment[v]]
    /\ addresses \in AddressBooks
    /\ RestInit

\* u1 opens the cart page again and again while the admin edits the prices
NextPriced ==
    \/ StartSummary(SeqWorker, "u1", TRUE) /\ UNCHANGED <<priceVars, restVars>>
    \/ GocGet(SeqWorker) /\ UNCHANGED <<priceVars, restVars>>
    \/ SumRead(SeqWorker) /\ UNCHANGED <<priceVars, restVars>>
    \/ (\E b \in PriceValues : AdminSetBasePrice(b)) /\ UNCHANGED restVars
    \/ (\E v \in Variants, a \in AdjustmentValues : AdminSetAdjustment(v, a))
          /\ UNCHANGED restVars

SpecPriced == InitPriced /\ [][NextPriced]_vars

\* ------------------------------------------------------------ the coupon
Times == 0..MaxTime
UseCounts == 0..MaxUses
\* usage_limit is a nullable IntegerField: None is <<>>, the number n is <<n>>
UsageLimits == {<<>>} \cup {<<n>> : n \in UseCounts}

\* self.usage_limit is None
NoUsageLimitFalsy(usage_limit) == usage_limit = <<>> \/ usage_limit = <<0>>
NoUsageLimit(usage_limit) == usage_limit = <<>>

\* Coupon.is_valid(), at the time t that timezone.now() returns
IsValid(c, t) ==
    /\ c.is_active
    /\ c.valid_from <= t /\ t <= c.valid_to
    /\ (NoUsageLimit(c.usage_limit) \/ c.used_count < c.usage_limit[1])

\* A Coupon row as the table can hold it.  No code under src writes
\* used_count, which the admin shows read-only; the other fields are set in
\* the admin.
InitCoupon ==
    /\ stock = [v \in Variants |-> InitStock[v]]
    /\ carts = <<>>
    /\ items = {}
    /\ nextItemId = 1
    /\ session = [a \in Anons |-> [session_key |-> NULL, cart_id |-> NoId]]
    /\ req = [p \in Procs |-> IdleReq]
    /\ started = 0
    /\ PriceInit
    /\ coupon \in [is_active : BOOLEAN, valid_from : Times, valid_to : Times,
                    usage_limit : UsageLimits, used_count : UseCounts]
    /\ now = 0
    /\ checked = <<>>
    /\ OrdersInit
    /\ FlowInit

\* coupon.is_valid() is called
CouponIsValid ==
    /\ checked' = <<IsValid(coupon, now)>>
    /\ UNCHANGED <<coupon, now>>

\* time passes
Tick ==
    /\ now < MaxTime
    /\ now' = now + 1
    /\ checked' = <<>>
    /\ UNCHANGED coupon

\* CouponAdmin: is_active and usage_limit are editable fields
AdminSetActive(b) ==
    /\ b /= coupon.is_active
    /\ coupon' = [coupon EXCEPT !.is_active = b]
    /\ checked' = <<>>
    /\ UNCHANGED now

AdminSetUsageLimit(l) ==
    /\ l /= coupon.usage_limit
    /\ coupon' = [coupon EXCEPT !.usage_limit = l]
    /\ checked' = <<>>
    /\ UNCHANGED now

NextCoupon ==
    \/ CouponIsValid /\ UNCHANGED <<cartVars, priceVars, orderVars, flowVars, saveVars>>
    \/ Tick /\ UNCHANGED <<cartVars, priceVars, orderVars, flowVars, saveVars>>
    \/ (\E b \in BOOLEAN : AdminSetActive(b)) /\ UNCHANGED <<cartVars, priceVars, orderVars, flowVars, saveVars>>
    \/ (\E l \in UsageLimits : AdminSetUsageLimit(l))
          /\ UNCHANGED <<cartVars, priceVars, orderVars, flowVars, saveVars>>

SpecCoupon == InitCoupon /\ [][NextCoupon]_vars

\* ------------------------------------------------------------- the orders
\* ''.join(random.choices(string.ascii_uppercase + string.digits, k=9)): the
\* strings the generator can return (two of them, so that they can repeat)
OrderNumbers == {"A", "B"}

OrderIds == {o.id : o \in orders}
OrderById(id) == CHOOSE o \in orders : o.id = id

\* order.items: the OrderItem rows of order id
OrderLines(rows, id) == {i \in rows : i.order = id}

\* Order.save(): if not self.order_number: self.order_number = <generated>
OrderNumberAlwaysGenerated(order_number, generated) == generated
OrderNumberOnSave(order_number, generated) ==
    IF order_number = "" THEN generated ELSE order_number

\* order_number is unique=True: the rows that a write of number n to the row
\* id clashes with (IntegrityError)
SameOrderNumber(id, n) == {o \in orders : o.id /= id /\ o.order_number = n}

\* An Order with the defaults of its fields (status and payment_status
\* 'pending', no order_number, no shipped_at and delivered_at) is saved, with
\* its OrderItem rows for the variants in vs; g is the generated string.
CreateOrder(g, vs) ==
    LET id == Cardinality(orders) + 1
        n == OrderNumberOnSave("", g)
        u == SeedPrice.base_price
    IN
    /\ id <= MaxOrders
    /\ IF SameOrderNumber(id, n) /= {}
       THEN /\ lastSave' = [kind |-> "create", order_number |-> n, error |-> TRUE]
            /\ UNCHANGED <<orders, orderItems>>
       ELSE /\ lastSave' = [kind |-> "create", order_number |-> n, error |-> FALSE]
            /\ orders' = orders \cup
                  {[id |-> id, order_number |-> n, status |-> "pending",
                    payment_status |-> "pending", shipped_at |-> <<>>,
                    delivered_at |-> <<>>,
                    money |-> [subtotal |-> u * Cardinality(vs), tax_amount |-> 0,
                               shipping_amount |-> 0, discount_amount |-> 0,
                               total_amount |-> u * Cardinality(vs)]]}
            /\ orderItems' = orderItems \cup
                  {[order |-> id, variant |-> v, quantity |-> 1, unit_price |-> u,
                    total_price |-> u] : v \in vs}
    /\ UNCHANGED variantIds

\* order.save() of a stored order; g is what the generator would return
SaveOrder(id, g) ==
    LET o == OrderById(id)
        n == OrderNumberOnSave(o.order_number, g)
    IN
    /\ id \in OrderIds
    /\ IF SameOrderNumber(id, n) /= {}
       THEN /\ lastSave' = [kind |-> "save", order_number |-> n, error |-> TRUE]
            /\ UNCHANGED orders
       ELSE /\ lastSave' = [kind |-> "save", order_number |-> n, error |-> FALSE]
            /\ orders' = (orders \ {o}) \cup {[o EXCEPT !.order_number = n]}
    /\ UNCHANGED <<orderItems, variantIds>>

\* queryset.update(status='processing')
ProcessingUpdate(o, t) == [o EXCEPT !.status = "processing"]

\* queryset.update(status='shipped', shipped_at=timezone.now())
ShippedUpdateStatusOnly(o, t) == [o EXCEPT !.status = "shipped"]
ShippedUpdate(o, t) == [o EXCEPT !.status = "shipped", !.shipped_at = <<t>>]

\* queryset.update(status='delivered', delivered_at=timezone.now())
DeliveredUpdate(o, t) == [o EXCEPT !.status = "delivered", !.delivered_at = <<t>>]

\* OrderAdmin.mark_as_processing on the selected orders
MarkAsProcessing(sel) ==
    /\ orders' = {IF o.id \in sel THEN ProcessingUpdate(o, now) ELSE o : o \in orders}
    /\ UNCHANGED <<orderItems, variantIds, lastSave>>

\* OrderAdmin.mark_as_shipped on the selected orders
MarkAsShipped(sel) ==
    /\ orders' = {IF o.id \in sel THEN ShippedUpdate(o, now) ELSE o : o \in orders}
    /\ UNCHANGED <<orderItems, variantIds, lastSave>>

\* OrderAdmin.mark_as_delivered on the selected orders
MarkAsDelivered(sel) ==
    /\ orders' = {IF o.id \in sel THEN DeliveredUpdate(o, now) ELSE o : o \in orders}
    /\ UNCHANGED <<orderItems, variantIds, lastSave>>

\* on_delete=CASCADE of OrderItem.variant and of CartItem.variant: the rows
\* that are left when the variants in gone are deleted
VariantCascade(rows, gone) == {i \in rows : i.variant \notin gone}

\* generate_variants: ShoeVariant.objects.all().delete(), then a new row for
\* every color and size of the shoe (two of them, under fresh ids).  The
\* stock and the price adjustment of the new rows are not kept: stock and
\* price_adjustment are those of the variants in Variants.
GenerateVariants ==
    LET top == IF variantIds = {} THEN 0
               ELSE CHOOSE m \in variantIds : \A v \in variantIds : v <= m
    IN
    /\ top + 2 <= MaxVariantId
    /\ variantIds' = {top + 1, top + 2}
    /\ orderItems' = VariantCascade(orderItems, variantIds)
    /\ items' = VariantCascade(items, variantIds)
    /\ UNCHANGED <<orders, lastSave>>
    /\ UNCHANGED <<stock, carts, nextItemId, session, req, started>>

\* orders are created, saved again and marked in the admin, while time passes
\* and the variants are generated anew
NextOrders ==
    \/ (\E g \in OrderNumbers, vs \in SUBSET variantIds : vs /= {} /\ CreateOrder(g, vs))
          /\ UNCHANGED <<cartVars, priceVars, couponVars, flowVars, saveVars>>
    \/ (\E id \in OrderIds, g \in OrderNumbers : SaveOrder(id, g))
          /\ UNCHANGED <<cartVars, priceVars, couponVars, flowVars, saveVars>>
    \/ (\E sel \in SUBSET OrderIds : sel /= {} /\ MarkAsProcessing(sel))
          /\ UNCHANGED <<cartVars, priceVars, couponVars, flowVars, saveVars>>
    \/ (\E sel \in SUBSET OrderIds : sel /= {} /\ MarkAsShipped(sel))
          /\ UNCHANGED <<cartVars, priceVars, couponVars, flowVars, saveVars>>
    \/ (\E sel \in SUBSET OrderIds : sel /= {} /\ MarkAsDelivered(sel))
          /\ UNCHANGED <<cartVars, priceVars, couponVars, flowVars, saveVars>>
    \/ GenerateVariants /\ UNCHANGED <<priceVars, couponVars, flowVars, saveVars>>
    \/ Tick /\ UNCHANGED <<cartVars, priceVars, orderVars, flowVars, saveVars>>

SpecOrders == Init /\ [][NextOrders]_vars

\* --------------------------------------------------------- createOrder
\* No view, command or method under src creates an order from a cart: the
\* operation is taken from section 4.3 of the specification.  It runs in one
\* transaction: its steps (a)-(f) write to the transaction's copy of the
\* tables (work), which replaces the stored tables at the commit; a failure
\* at any step rolls the transaction back.
Stored == Db(stock, items, orders, orderItems, coupon.used_count)

\* (a) the lines of cart c whose quantity exceeds the live stock
OffendingLines(db, c) == {i \in CartItems(db.items, c) : i.quantity > db.stock[i.variant]}

\* (d) the stock after it is lowered by the quantity of each line of cart c
StockAfterOrder(db, c) ==
    [v \in Variants |->
        db.stock[v] - SumQuantity({i \in CartItems(db.items, c) : i.variant = v})]

\* what a rollback leaves of the tables: what was stored before the transaction
RolledBackKeepingStock(pre, work) == [pre EXCEPT !.stock = work.stock]
RolledBack(pre, work) == pre

\* the stored tables become db
Store(db) ==
    /\ stock' = db.stock
    /\ items' = db.items
    /\ orders' = db.orders
    /\ orderItems' = db.orderItems
    /\ coupon' = [coupon EXCEPT !.used_count = db.used_count]

CoStep(pc, work) ==
    /\ checkout' = [checkout EXCEPT !.pc = pc, !.work = work]
    /\ UNCHANGED <<stock, items, orders, orderItems, coupon>>

\* the operation ends in failure: the transaction is rolled back
CoFail(result) ==
    /\ checkout' = [checkout EXCEPT !.pc = "done", !.result = result]
    /\ Store(RolledBack(checkout.pre, checkout.work))

\* createOrder(cart, ..., couponCode?) is called for the filled cart c
CoBegin(c, with_coupon) ==
    /\ checkout.pc \in {"idle", "done"}
    /\ Cardinality(orders) < MaxOrders
    /\ CartItems(items, c) /= {}
    /\ checkout' = [pc |-> "check", cart |-> c, with_coupon |-> with_coupon,
                    result |-> "none", pre |-> Stored, work |-> Stored]
    /\ UNCHANGED <<stock, items, orders, orderItems, coupon>>

\* (a) every line is validated again against the live stock
CoCheckStock ==
    /\ checkout.pc = "check"
    /\ IF OffendingLines(checkout.work, checkout.cart) /= {}
       THEN CoFail("InsufficientStock")
       ELSE CoStep("number", checkout.work)

\* (b) an order number is generated, again when it clashes; the Order row
CoNumber(g) ==
    LET w == checkout.work
        id == Cardinality(w.orders) + 1
        u == SeedPrice.base_price * SumQuantity(CartItems(w.items, checkout.cart))
    IN
    /\ checkout.pc = "number"
    /\ \A o \in w.orders : o.order_number /= g
    /\ CoStep("lines",
           [w EXCEPT !.orders = @ \cup
              {[id |-> id, order_number |-> g, status |-> "pending",
                payment_status |-> "pending", shipped_at |-> <<>>,
                delivered_at |-> <<>>,
                money |-> [subtotal |-> u, tax_amount |-> 0, shipping_amount |-> 0,
                           discount_amount |-> 0, total_amount |-> u]]}])

\* (c) every cart line is copied into an OrderItem
CoSnapshotLines ==
    LET w == checkout.work
        id == Cardinality(w.orders)
    IN
    /\ checkout.pc = "lines"
    /\ CoStep("decrement",
           [w EXCEPT !.orderItems = @ \cup
              {[order |-> id, variant |-> i.variant, quantity |-> i.quantity,
                unit_price |-> SeedPrice.base_price,
                total_price |-> SeedPrice.base_price * i.quantity]
                 : i \in CartItems(w.items, checkout.cart)}])

\* (d) the stock of every variant is lowered by the quantity of its line
CoDecrement ==
    /\ checkout.pc = "decrement"
    /\ CoStep("coupon",
           [checkout.work EXCEPT !.stock = StockAfterOrder(checkout.work, checkout.cart)])

\* (e) used_count of the coupon is raised when a coupon was applied
CoCoupon ==
    /\ checkout.pc = "coupon"
    /\ CoStep("clear",
           [checkout.work EXCEPT !.used_count =
               IF checkout.with_coupon THEN @ + 1 ELSE @])

\* (f) the cart is cleared
CoClear ==
    /\ checkout.pc = "clear"
    /\ CoStep("commit",
           [checkout.work EXCEPT !.items = @ \ CartItems(@, checkout.cart)])

\* the transaction commits
CoCommit ==
    /\ checkout.pc = "commit"
    /\ checkout' = [checkout EXCEPT !.pc = "done", !.result = "created"]
    /\ Store(checkout.work)

\* a step after the stock check fails (a persistence failure, a crash)
CoAbort ==
    /\ checkout.pc \in {"number", "lines", "decrement", "coupon", "clear", "commit"}
    /\ CoFail("failed")

\* u1 has a filled cart and the stock is whatever the admin has set since
InitCheckout ==
    /\ stock \in [Variants -> StockValues]
    /\ carts = <<[user |-> "u1", session_key |-> NULL]>>
    /\ \E q1, q2 \in StockValues : items = FilledCart(q1, q2)
    /\ nextItemId = Cardinality(items) + 1
    /\ session = [a \in Anons |-> [session_key |-> NULL, cart_id |-> NoId]]
    /\ req = [p \in Procs |-> IdleReq]
    /\ started = 0
    /\ PriceInit
    /\ RestInit

\* what createOrder leaves alone
checkoutFrame ==
    <<carts, nextItemId, session, req, started, priceVars, now, checked,
      variantIds, lastSave, payments, lastCallback, saveVars>>

NextCheckout ==
    \/ (\E w \in BOOLEAN : CoBegin(1, w)) /\ UNCHANGED checkoutFrame
    \/ CoCheckStock /\ UNCHANGED checkoutFrame
    \/ (\E g \in OrderNumbers : CoNumber(g)) /\ UNCHANGED checkoutFrame
    \/ CoSnapshotLines /\ UNCHANGED checkoutFrame
    \/ CoDecrement /\ UNCHANGED checkoutFrame
    \/ CoCoupon /\ UNCHANGED checkoutFrame
    \/ CoClear /\ UNCHANGED checkoutFrame
    \/ CoCommit /\ UNCHANGED checkoutFrame
    \/ CoAbort /\ UNCHANGED checkoutFrame

SpecCheckout == InitCheckout /\ [][NextCheckout]_vars

\* ------------------------------------------------- payment reconciliation
\* No code under src initiates a payment or receives the gateway's callback
\* (the Payment model and its admin are all there is): initiatePayment and
\* applyCallback are taken from section 4.4 of the specification.
CheckoutIds == {"ws1", "ws2"}        \* checkout request ids the gateway hands out
Receipts == {"r1", "r2"}             \* receipt ids
Outcomes == {"SUCCESS", "FAILED"}

PaymentsOfId(id) == {x \in payments : x.checkout_request_id = id}

\* a Payment that has reached a terminal state
TerminalOnlySuccess(status) == status = "SUCCESS"
Terminal(status) == status \in {"SUCCESS", "FAILED"}

\* initiatePayment(order, ...): a PENDING Payment under the id of the gateway
InitiatePayment(o, id) ==
    /\ o \in OrderIds
    /\ PaymentsOfId(id) = {}
    /\ payments' = payments \cup
          {[checkout_request_id |-> id, order |-> o, status |-> "PENDING",
            mpesa_receipt |-> NULL]}
    /\ UNCHANGED <<orders, lastCallback>>

\* the Order of a payment after the payment's first terminal outcome
OrderAfterOutcome(o, outcome) ==
    IF outcome = "SUCCESS"
    THEN [o EXCEPT !.payment_status = "SUCCESS",
                   !.status = IF @ = "pending" THEN "processing" ELSE @]
    ELSE [o EXCEPT !.payment_status = "FAILED"]

\* applyCallback(checkoutRequestId, outcome, receiptId, rawPayload)
ApplyCallback(id, outcome, receipt) ==
    LET pay == CHOOSE x \in PaymentsOfId(id) : TRUE
        answer(result) == [id |-> id, outcome |-> outcome, receipt |-> receipt,
                           result |-> result]
    IN
    IF PaymentsOfId(id) = {}
    THEN /\ lastCallback' = answer("UnknownCheckoutRequest")
         /\ UNCHANGED <<payments, orders>>
    ELSE IF Terminal(pay.status)
    THEN /\ lastCallback' = answer(IF outcome = pay.status THEN "ok"
                                   ELSE "ConflictingCallback")
         /\ UNCHANGED <<payments, orders>>
    ELSE /\ lastCallback' = answer("ok")
         /\ payments' = (payments \ {pay}) \cup
               {[pay EXCEPT !.status = outcome,
                            !.mpesa_receipt = IF outcome = "SUCCESS" THEN receipt ELSE @]}
         /\ orders' = {IF o.id = pay.order THEN OrderAfterOutcome(o, outcome) ELSE o
                          : o \in orders}

\* one order is stored, pending and unpaid
InitPayments ==
    /\ stock = [v \in Variants |-> InitStock[v]]
    /\ carts = <<>>
    /\ items = {}
    /\ nextItemId = 1
    /\ session = [a \in Anons |-> [session_key |-> NULL, cart_id |-> NoId]]
    /\ req = [p \in Procs |-> IdleReq]
    /\ started = 0
    /\ PriceInit
    /\ coupon = [is_active |-> TRUE, valid_from |-> 0, valid_to |-> 0,
                 usage_limit |-> <<>>, used_count |-> 0]
    /\ now = 0
    /\ checked = <<>>
    /\ orders = {[id |-> 1, order_number |-> "A", status |-> "pending",
                  payment_status |-> "pending", shipped_at |-> <<>>,
                  delivered_at |-> <<>>,
                  money |-> [subtotal |-> SeedPrice.base_price, tax_amount |-> 0,
                             shipping_amount |-> 0, discount_amount |-> 0,
                             total_amount |-> SeedPrice.base_price]]}
    /\ orderItems = {[order |-> 1, variant |-> 1, quantity |-> 1,
                      unit_price |-> SeedPrice.base_price,
                      total_price |-> SeedPrice.base_price]}
    /\ variantIds = Variants
    /\ lastSave = NoSave
    /\ FlowInit

\* what the payment operations leave alone
paymentFrame ==
    <<cartVars, priceVars, couponVars, orderItems, variantIds, lastSave, checkout,
      saveVars>>

NextPayments ==
    \/ (\E o \in OrderIds, id \in CheckoutIds : InitiatePayment(o, id))
          /\ UNCHANGED paymentFrame
    \/ (\E id \in CheckoutIds, outcome \in Outcomes, receipt \in Receipts :
            ApplyCallback(id, outcome, receipt))
          /\ UNCHANGED paymentFrame

SpecPayments == InitPayments /\ [][NextPayments]_vars

\* ------------------------------------------------------------ Address.save
\* models.py 97-105.  save() is two statements with no transaction and no
\* lock around them: the UPDATE that clears the other defaults of the user and
\* type, then super().save() that writes the instance.
AddressUsers == {"u1", "u2"}
AddressTypes == {"shipping", "billing"}

\* inserts that have begun and not yet reached super().save()
PendingInserts ==
    Cardinality({p \in Procs : addrSave[p].pc /= "idle" /\ addrSave[p].inst.id = NoId})

\* address.save() is called on an instance: a new one (pk None) or one loaded
\* from its row, with the address_type and is_default of the form
AddrBegin(p, id, u, t, d) ==
    /\ addrSave[p].pc = "idle"
    /\ IF id = NoId
       THEN Cardinality(addresses) + PendingInserts < MaxAddressId
       ELSE \E a \in addresses : a.id = id /\ u = a.user
    /\ addrSave' = [addrSave EXCEPT ![p] =
          [pc |-> IF d THEN "update" ELSE "save",
           inst |-> [id |-> id, user |-> u, address_type |-> t, is_default |-> d,
                     delivery_area |-> 1]]]
    /\ UNCHANGED addresses

\* Address.objects.filter(user, address_type, is_default=True)
\*     .exclude(pk=self.pk).update(is_default=False)
AddrClearOthers(p) ==
    LET inst == addrSave[p].inst IN
    /\ addrSave[p].pc = "update"
    /\ addresses' =
          {IF /\ a.user = inst.user /\ a.address_type = inst.address_type
              /\ a.is_default /\ a.id /= inst.id
           THEN [a EXCEPT !.is_default = FALSE] ELSE a : a \in addresses}
    /\ addrSave' = [addrSave EXCEPT ![p].pc = "save"]

\* super().save(): INSERT of a new row, UPDATE of every field of a stored one
AddrSuperSave(p) ==
    LET inst == addrSave[p].inst
        newId == Cardinality(addresses) + 1
    IN
    /\ addrSave[p].pc = "save"
    /\ addresses' =
          IF inst.id = NoId
          THEN addresses \cup {[inst EXCEPT !.id = newId]}
          ELSE {IF a.id = inst.id THEN inst ELSE a : a \in addresses}
    /\ addrSave' = [addrSave EXCEPT ![p] = NoAddrSave]

\* what Address.save leaves alone
addressFrame ==
    <<cartVars, base_price, price_adjustment, couponVars, orderVars, flowVars,
      shoeVariants, variantSave>>

NextAddress ==
    \/ (\E p \in Procs, id \in {NoId} \cup (1..MaxAddressId), u \in AddressUsers,
           t \in AddressTypes, d \in BOOLEAN : AddrBegin(p, id, u, t, d))
          /\ UNCHANGED addressFrame
    \/ (\E p \in Procs : AddrClearOthers(p)) /\ UNCHANGED addressFrame
    \/ (\E p \in Procs : AddrSuperSave(p)) /\ UNCHANGED addressFrame

SpecAddress == Init /\ [][NextAddress]_vars

\* ------------------------------------------------------- ShoeVariant.save
\* models.py 289 (sku unique), 302 (unique_together shoe, color, size),
\* 319-327 (save).
SkuInputs == {<<>>, <<"X">>}         \* sku left empty, or set by the caller

SameTuple(sh, co, sz) ==
    {x \in shoeVariants : x.shoe = sh /\ x.color = co /\ x.size = sz}

\* the constraint an INSERT or UPDATE of (sh, co, sz, sku) breaks among the
\* rows other than the row id
Clash(id, sh, co, sz, sku) ==
    IF \E x \in SameTuple(sh, co, sz) : x.id /= id THEN "tuple"
    ELSE IF \E x \in shoeVariants : x.id /= id /\ x.sku = sku THEN "sku"
    ELSE "none"

\* ShoeVariant(shoe, color, size, sku).save() of a new instance, as the admin's
\* add form and the create of get_or_create do
CreateVariant(sh, co, sz, sku_in) ==
    LET sku == SkuOnSave(sku_in, sh, co, sz)
        clash == Clash(NoId, sh, co, sz, sku)
        id == Cardinality(shoeVariants) + 1
    IN
    /\ Cardinality(shoeVariants) < MaxVariantRows
    /\ variantSave' = [kind |-> "create", shoe |-> sh, color |-> co, size |-> sz,
                       sku_in |-> sku_in, sku_before |-> sku_in, sku |-> sku,
                       clash |-> clash]
    /\ shoeVariants' =
          IF clash = "none"
          THEN shoeVariants \cup
                 {[id |-> id, shoe |-> sh, color |-> co, size |-> sz, sku |-> sku]}
          ELSE shoeVariants

\* generate_variants: ShoeVariant.objects.get_or_create(shoe, color, size,
\* defaults=...): the row when there is one, else the save of a new instance
\* with no sku
GetOrCreateVariant(sh, co, sz) ==
    IF SameTuple(sh, co, sz) /= {}
    THEN /\ variantSave' =
              [NoVariantSave EXCEPT !.kind = "get", !.shoe = sh, !.color = co,
                                    !.size = sz,
                                    !.sku = (CHOOSE x \in SameTuple(sh, co, sz) : TRUE).sku]
         /\ UNCHANGED shoeVariants
    ELSE CreateVariant(sh, co, sz, <<>>)

\* a stored variant is saved again, with the colour of the form
ResaveVariant(id, co) ==
    \E x \in shoeVariants :
        LET sku == SkuOnSave(x.sku, x.shoe, co, x.size)
            clash == Clash(id, x.shoe, co, x.size, sku)
        IN
        /\ x.id = id
        /\ variantSave' = [kind |-> "resave", shoe |-> x.shoe, color |-> co,
                           size |-> x.size, sku_in |-> x.sku, sku_before |-> x.sku,
                           sku |-> sku, clash |-> clash]
        /\ shoeVariants' =
              IF clash = "none"
              THEN (shoeVariants \ {x}) \cup {[x EXCEPT !.color = co, !.sku = sku]}
              ELSE shoeVariants

\* what ShoeVariant.save leaves alone
skuFrame == <<cartVars, priceVars, couponVars, orderVars, flowVars, addrSave>>

NextSku ==
    \/ (\E sh \in DOMAIN ShoeRows, co \in DOMAIN ColorNames, sz \in DOMAIN SizeRows,
           sku_in \in SkuInputs :
            CreateVariant(sh, co, sz, sku_in))
          /\ UNCHANGED skuFrame
    \/ (\E sh \in DOMAIN ShoeRows, co \in DOMAIN ColorNames, sz \in DOMAIN SizeRows :
            GetOrCreateVariant(sh, co, sz))
          /\ UNCHANGED skuFrame
    \/ (\E id \in 1..MaxVariantRows, co \in DOMAIN ColorNames : ResaveVariant(id, co))
          /\ UNCHANGED skuFrame

SpecSku == Init /\ [][NextSku]_vars

SpecSeq == Init /\ [][NextSeq]_vars

TypeOK ==
    /\ stock \in [Variants -> StockValues]
    /\ Len(carts) <= MaxCarts
    /\ nextItemId <= MaxItemId + 1

\* ================================================================ claims
\* a request that has been served
Done(p, op) == req[p].pc = "done" /\ req[p].op = op

\* the line of variant v in cart c among the rows its
LineOf(its, c, v) == CHOOSE i \in SameCartVariant(its, c, v) : TRUE

\* the line with id in cart c among the rows its
OwnLine(its, id, c) == CHOOSE i \in OwnItem(its, id, c) : TRUE

\* ---------------------------------------------------------------------
\* C1: a cart holds at most one CartItem per variant, and an add_to_cart that
\* succeeds for a variant already in the cart raises the quantity of that
\* line by the requested quantity and creates no line.
C1_OneLinePerVariant ==
    /\ \A i, j \in items : i.cart = j.cart /\ i.variant = j.variant => i = j
    /\ \A p \in Procs :
         LET r == req[p] IN
         Done(p, "add") /\ r.result = "success"
            /\ SameCartVariant(r.pre, r.cart, r.variant_id) /= {}
         => LET old == LineOf(r.pre, r.cart, r.variant_id) IN
            items = (r.pre \ {old})
                       \cup {[old EXCEPT !.quantity = old.quantity + r.quantity]}

\* an add of one more pair to a line that holds one pair has succeeded
C1_Witness ==
    \E p \in Procs :
        LET r == req[p] IN
        /\ Done(p, "add") /\ r.result = "success" /\ r.quantity = 1
        /\ SameCartVariant(r.pre, r.cart, r.variant_id) /= {}
        /\ LineOf(r.pre, r.cart, r.variant_id).quantity = 1
        /\ Cardinality(CartItems(items, r.cart)) = 2

\* ---------------------------------------------------------------------
\* the quantity of the line with id n in cart c, 0 when there is none
QuantityOfId(c, n) ==
    IF OwnItem(items, n, c) = {} THEN 0 ELSE OwnLine(items, n, c).quantity

RECURSIVE QuantityUpTo(_, _)
QuantityUpTo(c, n) == IF n = 0 THEN 0 ELSE QuantityOfId(c, n) + QuantityUpTo(c, n - 1)

\* C2: the cart_count answered by add_to_cart, update_cart_item and
\* remove_cart_item is the sum of the quantities of the lines the cart holds
\* after the call, and 0 when it holds none.
C2_CartCountIsSum ==
    \A p \in Procs :
        LET r == req[p] IN
        r.pc = "done" /\ r.op \in {"add", "update", "remove"} /\ r.counted
        => /\ r.cart_count = QuantityUpTo(r.cart, nextItemId - 1)
           /\ CartItems(items, r.cart) = {} => r.cart_count = 0

\* an update answered the count of a cart of two lines, one of them of two pairs
C2_Witness ==
    \E p \in Procs :
        LET r == req[p] IN
        /\ Done(p, "update") /\ r.counted /\ r.cart_count = 3
        /\ Cardinality(CartItems(items, r.cart)) = 2

\* ---------------------------------------------------------------------
\* C3: add_to_cart answers insufficient stock and leaves every CartItem as it
\* was when the stock is below the requested quantity or below the quantity
\* of the cart's line plus the requested quantity.
C3_AddInsufficientLeavesCart ==
    \A p \in Procs :
        LET r == req[p]
            st == stock[r.variant_id]
            line == SameCartVariant(r.pre, r.cart, r.variant_id)
        IN
        Done(p, "add")
        => /\ r.result = "insufficient" => items = r.pre
           /\ st < r.quantity => r.result = "insufficient"
           /\ line /= {} /\ st < LineOf(r.pre, r.cart, r.variant_id).quantity + r.quantity
                 => r.result = "insufficient"

\* an add within the stock was refused for the quantity the line already held
C3_Witness ==
    \E p \in Procs :
        LET r == req[p] IN
        /\ Done(p, "add") /\ r.result = "insufficient"
        /\ r.quantity >= 1 /\ r.quantity <= stock[r.variant_id]
        /\ SameCartVariant(items, r.cart, r.variant_id) /= {}
        /\ Cardinality(CartItems(items, r.cart)) = 2

\* ---------------------------------------------------------------------
\* two add_to_cart requests for the same variant that were in flight at the
\* same time
ConcurrentAdds(p, q) ==
    /\ p /= q /\ Done(p, "add") /\ Done(q, "add")
    /\ q \in req[p].overlap
    /\ req[p].variant_id = req[q].variant_id

\* C4: of two concurrent add_to_cart requests for one variant, each for at
\* least one pair, whose quantities together exceed the variant's stock, at
\* most one succeeds.
C4_AtMostOneConcurrentAddSucceeds ==
    \A p, q \in Procs :
        /\ ConcurrentAdds(p, q)
        /\ req[p].quantity >= 1 /\ req[q].quantity >= 1
        /\ req[p].quantity + req[q].quantity > stock[req[p].variant_id]
        => ~(req[p].result = "success" /\ req[q].result = "success")

\* ---------------------------------------------------------------------
\* C5: the stock quantity of no variant is ever negative, whatever cart
\* requests interleave.
C5_StockNeverNegative == \A v \in Variants : stock[v] >= 0

\* two concurrent adds for the same variant have both succeeded
C5_Witness ==
    \E p, q \in Procs :
        /\ ConcurrentAdds(p, q)
        /\ req[p].quantity >= 1 /\ req[q].quantity >= 1
        /\ req[p].result = "success" /\ req[q].result = "success"

\* ---------------------------------------------------------------------
\* C6: there is at most one Cart row per user and at most one Cart row per
\* anonymous session.
C6_OneCartPerOwner ==
    \A c, d \in CartIds :
        c /= d
        => /\ ~(carts[c].user /= NULL /\ carts[c].user = carts[d].user)
           /\ ~(carts[c].user = NULL /\ carts[d].user = NULL
                  /\ carts[c].session_key /= NULL
                  /\ carts[c].session_key = carts[d].session_key)

\* ---------------------------------------------------------------------
\* C7: every Cart row has exactly one owner: a user and no session key, or a
\* session key and no user.
C7_ExactlyOneOwner ==
    \A c \in CartIds :
        \/ carts[c].user /= NULL /\ carts[c].session_key = NULL
        \/ carts[c].user = NULL /\ carts[c].session_key /= NULL

\* ---------------------------------------------------------------------
\* C8: every CartItem has a quantity of at least 1.
C8_QuantityAtLeastOne == \A i \in items : i.quantity >= 1

\* ---------------------------------------------------------------------
\* C9: update_cart_item for a line of the requester's cart with a quantity
\* above the stock of the line's variant answers insufficient stock and
\* leaves every CartItem as it was.
C9_UpdateAboveStockRefused ==
    \A p \in Procs :
        LET r == req[p] IN
        Done(p, "update") /\ OwnItem(r.pre, r.item_id, r.cart) /= {}
            /\ r.quantity > stock[OwnLine(r.pre, r.item_id, r.cart).variant]
        => r.result = "insufficient" /\ items = r.pre

\* an update above the stock was refused in a cart of two lines
C9_Witness ==
    \E p \in Procs :
        LET r == req[p] IN
        /\ Done(p, "update") /\ r.result = "insufficient"
        /\ OwnItem(r.pre, r.item_id, r.cart) /= {}
        /\ r.quantity > stock[OwnLine(r.pre, r.item_id, r.cart).variant]
        /\ Cardinality(CartItems(items, r.cart)) = 2

\* ---------------------------------------------------------------------
\* C10: update_cart_item for a line of the requester's cart with a quantity
\* <= 0 deletes that line, answers item_removed and leaves the other lines;
\* with a quantity from 1 to the stock it sets the line to that quantity and
\* leaves the other lines.
C10_UpdateRemovesOrSets ==
    \A p \in Procs :
        LET r == req[p] IN
        Done(p, "update") /\ OwnItem(r.pre, r.item_id, r.cart) /= {}
        => LET line == OwnLine(r.pre, r.item_id, r.cart) IN
           /\ r.quantity <= 0
                 => /\ r.result = "success" /\ r.item_removed
                    /\ items = r.pre \ {line}
           /\ r.quantity >= 1 /\ r.quantity <= stock[line.variant]
                 => /\ r.result = "success" /\ ~r.item_removed
                    /\ items = (r.pre \ {line})
                                  \cup {[line EXCEPT !.quantity = r.quantity]}

\* an update with quantity 0 removed one of the two lines of a cart
C10_Witness ==
    \E p \in Procs :
        LET r == req[p] IN
        /\ Done(p, "update") /\ r.quantity = 0 /\ r.item_removed
        /\ Cardinality(CartItems(r.pre, r.cart)) = 2
        /\ Cardinality(CartItems(items, r.cart)) = 1

\* an update set a line of two pairs to one pair
C10_WitnessSet ==
    \E p \in Procs :
        LET r == req[p] IN
        /\ Done(p, "update") /\ r.quantity = 1 /\ r.result = "success"
        /\ OwnItem(r.pre, r.item_id, r.cart) /= {}
        /\ OwnLine(r.pre, r.item_id, r.cart).quantity = 2

\* ---------------------------------------------------------------------
\* the owner columns of the Cart row of client c
OwnerRow(c) ==
    IF c \in Users THEN [user |-> c, session_key |-> NULL]
    ELSE [user |-> NULL, session_key |-> session[c].session_key]

\* C11: a remove_cart_item for a line id that is not in the requester's cart
\* is answered as not found (404) and changes no CartItem row; so a second
\* removal of a line is answered as not found.
C11_RemoveMissingIsNotFound ==
    \A p \in Procs :
        LET r == req[p] IN
        Done(p, "remove") /\ r.cart /= NoId /\ OwnItem(r.pre, r.item_id, r.cart) = {}
        => r.result = "not_found" /\ items = r.pre

\* ---------------------------------------------------------------------
\* C12: clear_cart deletes every line of the requester's cart and keeps the
\* Cart row: after it the cart exists with the same owner, counts 0 items and
\* has total price 0; the add_to_cart that follows it uses the same cart.
C12_ClearKeepsCart ==
    \A p \in Procs :
        LET r == req[p] IN
        /\ Done(p, "clear") /\ r.result = "success"
           => /\ r.cart \in CartIds
              /\ carts[r.cart] = OwnerRow(r.client)
              /\ items = r.pre \ CartItems(r.pre, r.cart)
              /\ TotalItems(items, r.cart) = 0
              /\ CartTotalPrice(items, r.cart) = 0
              /\ r.cart_count = 0
        /\ Done(p, "add") /\ r.result = "success" /\ r.after_clear /= NoId
           => r.cart = r.after_clear

\* ---------------------------------------------------------------------
\* base price plus adjustment of the variant of the line with id n in cart c,
\* times its quantity; 0 when there is no such line
PricedOfId(c, n) ==
    IF OwnItem(items, n, c) = {} THEN 0
    ELSE (base_price + price_adjustment[OwnLine(items, n, c).variant])
             * OwnLine(items, n, c).quantity

RECURSIVE PricedUpTo(_, _)
PricedUpTo(c, n) == IF n = 0 THEN 0 ELSE PricedOfId(c, n) + PricedUpTo(c, n - 1)

\* C13: the total price of a cart is the sum over its lines of the variant's
\* final price (base price plus adjustment, as the catalog holds them when
\* the total is read) times the quantity; a read that follows a price edit
\* shows the new prices.
C13_TotalPriceIsLive ==
    /\ \A c \in CartIds : CartTotalPrice(items, c) = PricedUpTo(c, MaxItemId)
    /\ \A p \in Procs :
         Done(p, "summary") /\ req[p].result = "success"
         => req[p].subtotal = PricedUpTo(req[p].cart, MaxItemId)

\* the cart page was read after the admin changed the base price and the
\* adjustment of variant 2, for a cart with a line of either variant
C13_Witness ==
    \E p \in Procs :
        /\ Done(p, "summary") /\ req[p].result = "success"
        /\ base_price /= SeedPrice.base_price
        /\ price_adjustment[2] /= SeedPrice.price_adjustment[2]
        /\ Cardinality(CartItems(items, req[p].cart)) = 2
        /\ req[p].subtotal = PricedUpTo(req[p].cart, MaxItemId)
        /\ req[p].subtotal /=
              SeedPrice.base_price * SumQuantity(CartItems(items, req[p].cart))
                + SeedPrice.price_adjustment[2] * LineOf(items, req[p].cart, 2).quantity

\* ---------------------------------------------------------------------
\* the shipping fee the claim names for client c: the fee of the delivery
\* area of the default shipping address, 0 when there is none
ClaimedShipping(c) ==
    IF \E a \in addresses : a.user = c /\ a.address_type = "shipping" /\ a.is_default
                             /\ a.delivery_area /= NoId
    THEN AreaFee[(CHOOSE a \in addresses :
                     a.user = c /\ a.address_type = "shipping" /\ a.is_default
                     /\ a.delivery_area /= NoId).delivery_area]
    ELSE 0

\* C15: the total shown for a cart is subtotal - discount + shipping + tax
\* (the cart page applies no discount and no tax) and is never negative;
\* shipping is the fee of the delivery area of the user's default shipping
\* address, 0 when there is none.
C15_TotalShown ==
    \A p \in Procs :
        LET r == req[p] IN
        Done(p, "summary") /\ r.result = "success"
        => /\ r.subtotal = PricedUpTo(r.cart, MaxItemId)
           /\ r.shipping_fee = ClaimedShipping(r.client)
           /\ r.total = r.subtotal - 0 + r.shipping_fee + 0
           /\ r.total >= 0

\* ---------------------------------------------------------------------
\* C14: Coupon.is_valid() answers true exactly when the coupon is active, now
\* lies in [valid_from, valid_to] with both ends included, and usage_limit is
\* unset or used_count is below it; so a coupon with usage_limit 0 is never
\* valid and one whose used_count equals its usage_limit is not valid.
C14_IsValidExactly ==
    checked /= <<>> =>
        /\ checked[1] <=>
              /\ coupon.is_active = TRUE
              /\ now >= coupon.valid_from /\ now <= coupon.valid_to
              /\ \/ coupon.usage_limit = <<>>
                 \/ \E n \in UseCounts : coupon.usage_limit = <<n>> /\ coupon.used_count < n
        /\ coupon.usage_limit = <<0>> => ~checked[1]
        /\ coupon.usage_limit = <<coupon.used_count>> => ~checked[1]

\* is_valid() answered true on the last instant of the window of a coupon
\* that has one use left
C14_Witness ==
    /\ checked = <<TRUE>>
    /\ now = coupon.valid_to /\ now > coupon.valid_from
    /\ coupon.usage_limit = <<coupon.used_count + 1>>

\* is_valid() answered false for an active coupon inside its window whose
\* usage_limit is 0
C14_WitnessLimitZero ==
    /\ checked = <<FALSE>>
    /\ coupon.is_active /\ coupon.valid_from <= now /\ now <= coupon.valid_to
    /\ coupon.usage_limit = <<0>> /\ coupon.used_count = 0

\* ---------------------------------------------------------------------
\* the place of a status on the chain pending -> processing -> shipped ->
\* delivered; cancelled and refunded are final
ChainRank(status) ==
    CASE status = "pending"    -> 0
      [] status = "processing" -> 1
      [] status = "shipped"    -> 2
      [] status = "delivered"  -> 3
      [] OTHER                 -> 4

FinalStatus(status) == status \in {"cancelled", "refunded"}

\* the order with the id of o after the step, o itself when it is gone
After(o) ==
    IF \E x \in orders' : x.id = o.id THEN CHOOSE x \in orders' : x.id = o.id ELSE o

\* C16: every change of Order.status is a legal transition: no operation, the
\* admin bulk actions included, moves an order out of cancelled or refunded
\* or backwards along the chain pending -> processing -> shipped -> delivered.
C16_LegalTransitions ==
    [][\A o \in orders :
          After(o).status /= o.status
          => /\ ~FinalStatus(o.status)
             /\ FinalStatus(After(o).status)
                   \/ ChainRank(After(o).status) > ChainRank(o.status)]_vars

C18_OrderNumberKept ==
    [][/\ \A o \in orders :
             /\ \E x \in orders' : x.id = o.id
             /\ After(o).order_number = o.order_number
       /\ \A x \in orders' :
             (\A o \in orders : o.id /= x.id)
             => /\ x.order_number /= ""
                /\ x.status = "pending" /\ x.payment_status = "pending"
       /\ \A x, y \in orders' : x.order_number = y.order_number => x.id = y.id]_vars

\* two orders are stored and one of them has just been saved again
C18_Witness ==
    /\ Cardinality(orders) = 2
    /\ lastSave.kind = "save" /\ ~lastSave.error
    /\ \E o \in orders : o.order_number = lastSave.order_number /\ o.status /= "pending"

\* ---------------------------------------------------------------------
\* C19: when the number generated for a new order is that of a stored order,
\* the creation tries another number and succeeds: no creation fails on a
\* clash, and no two orders have the same number.
C19_ClashRetried ==
    /\ lastSave.kind = "create" => ~lastSave.error
    /\ \A x, y \in orders : x.order_number = y.order_number => x.id = y.id

\* ---------------------------------------------------------------------
\* C20: the line items and the money fields of a stored order never change:
\* every step leaves them as they are and changes at most status,
\* payment_status, shipped_at and delivered_at.
C20_OrderFrozen ==
    [][\A o \in orders :
          /\ \E x \in orders' : x.id = o.id
          /\ After(o).money = o.money
          /\ After(o).order_number = o.order_number
          /\ OrderLines(orderItems', o.id) = OrderLines(orderItems, o.id)]_vars

\* ---------------------------------------------------------------------
\* the quantity of the line of variant v in cart c among the rows its, 0
\* when there is none
LineQuantity(its, c, v) ==
    IF SameCartVariant(its, c, v) = {} THEN 0 ELSE LineOf(its, c, v).quantity

\* C21: createOrder is all-or-nothing.  When a line exceeds the live stock at
\* the re-check, or a later step fails, the stock, the Order, OrderItem and
\* Payment rows, the coupon's used_count and the cart's lines are as before;
\* when it succeeds, the stock of each variant is lowered by exactly the
\* line's quantity and the cart is empty.  Nothing of it shows before the end.
C21_CreateOrderAllOrNothing ==
    LET c == checkout.cart
        pre == checkout.pre
    IN
    /\ checkout.pc \notin {"idle", "done"} => Stored = pre /\ payments = {}
    /\ checkout.pc = "done" /\ checkout.result /= "created"
         => /\ stock = pre.stock /\ items = pre.items
            /\ orders = pre.orders /\ orderItems = pre.orderItems
            /\ coupon.used_count = pre.used_count /\ payments = {}
    /\ checkout.pc = "done"
         /\ (\E i \in pre.items : i.cart = c /\ i.quantity > pre.stock[i.variant])
         => checkout.result = "InsufficientStock"
    /\ checkout.pc = "done" /\ checkout.result = "created"
         => /\ \A v \in Variants :
                 stock[v] = pre.stock[v] - LineQuantity(pre.items, c, v) /\ stock[v] >= 0
            /\ CartItems(items, c) = {}
            /\ Cardinality(orders) = Cardinality(pre.orders) + 1
            /\ Cardinality(orderItems \ pre.orderItems)
                  = Cardinality(CartItems(pre.items, c))

\* a createOrder failed after it had lowered the stock in its transaction
C21_Witness ==
    /\ checkout.pc = "done" /\ checkout.result = "failed"
    /\ checkout.work.stock /= checkout.pre.stock
    /\ checkout.work.orders /= {}
    /\ stock = checkout.pre.stock /\ orders = {}

\* a createOrder of a cart with two lines succeeded
C21_WitnessCreated ==
    /\ checkout.pc = "done" /\ checkout.result = "created"
    /\ Cardinality(orderItems) = 2 /\ coupon.used_count = 1

\* ---------------------------------------------------------------------
\* C22: once a Payment is SUCCESS or FAILED no applyCallback for its id
\* changes it: a callback with the stored outcome leaves Payment and Order as
\* they are and is answered ok, one with the other outcome is rejected with
\* ConflictingCallback.
C22_TerminalPaymentKept ==
    [][/\ \A x \in payments :
             x.status \in {"SUCCESS", "FAILED"} => x \in payments'
       /\ \A x \in payments :
             /\ x.status \in {"SUCCESS", "FAILED"}
             /\ lastCallback' /= lastCallback
             /\ lastCallback'.id = x.checkout_request_id
             => /\ payments' = payments /\ orders' = orders
                /\ lastCallback'.result =
                      IF lastCallback'.outcome = x.status THEN "ok"
                      ELSE "ConflictingCallback"]_vars

\* a FAILED callback for a Payment in SUCCESS was rejected, the Payment is
\* still in SUCCESS with its receipt and the order is processing
C22_Witness ==
    /\ lastCallback.result = "ConflictingCallback" /\ lastCallback.outcome = "FAILED"
    /\ \E x \in payments :
          /\ x.checkout_request_id = lastCallback.id
          /\ x.status = "SUCCESS" /\ x.mpesa_receipt /= NULL
          /\ \E o \in orders : o.id = x.order /\ o.status = "processing"

\* ---------------------------------------------------------------------
\* C23: whenever no Address.save is in progress, each user has at most one
\* default address of each type, also after saves that were interleaved.
C23_OneDefaultPerType ==
    (\A p \in Procs : addrSave[p].pc = "idle")
    => \A u \in AddressUsers, t \in AddressTypes :
          Cardinality({a \in addresses :
                         a.user = u /\ a.address_type = t /\ a.is_default}) <= 1

\* ---------------------------------------------------------------------
\* the Cart rows that get_or_create_cart and cart_context look up for the
\* anonymous browser a: Cart(session_key = the session's key, user = None)
CartsOfSessionKey(a) ==
    {c \in CartIds : carts[c].user = NULL
                      /\ carts[c].session_key = session[a].session_key}

\* C24: for an anonymous shopper the cart add_to_cart writes to (the cart_id
\* of the session) is the one row the lookup by session key finds, so a
\* cart_summary after an add reads the cart the add wrote to.
C24_SameAnonCart ==
    /\ \A a \in Anons :
          session[a].cart_id /= NoId
          => /\ session[a].session_key /= NULL
             /\ CartsOfSessionKey(a) = {session[a].cart_id}
    /\ \A p \in Procs :
          LET r == req[p] IN
          Done(p, "summary") /\ r.client \in Anons /\ r.result = "success"
              /\ session[r.client].cart_id /= NoId
          => r.cart = session[r.client].cart_id

\* ---------------------------------------------------------------------
\* C25: when two add_to_cart requests for a variant already in the same cart
\* run concurrently, both from the same stored quantity, and both report
\* success, the line ends with its initial quantity plus both quantities.
C25_NoLostUpdate ==
    \A p, q \in Procs :
        LET c == req[p].cart
            v == req[p].variant_id
            initial == LineQuantity(req[p].pre, c, v)
        IN
        /\ ConcurrentAdds(p, q)
        /\ req[q].cart = c
        /\ req[p].quantity >= 1 /\ req[q].quantity >= 1
        /\ req[p].result = "success" /\ req[q].result = "success"
        /\ initial >= 1 /\ LineQuantity(req[q].pre, c, v) = initial
        => LineQuantity(items, c, v) = initial + req[p].quantity + req[q].quantity

\* ---------------------------------------------------------------------
\* C26: with the stock held constant, under every interleaving of
\* add_to_cart and update_cart_item the quantity of each cart line is at most
\* the stock of its variant.
C26_LineWithinStock == \A i \in items : i.quantity <= stock[i.variant]

\* an add and an update that overlapped on one cart have both succeeded and
\* a line of that cart holds the whole stock of its variant
C26_Witness ==
    \E p, q \in Procs :
        /\ Done(p, "add") /\ Done(q, "update") /\ q \in req[p].overlap
        /\ req[p].cart = req[q].cart
        /\ req[p].result = "success" /\ req[q].result = "success"
        /\ \E i \in items : i.cart = req[p].cart /\ i.quantity = stock[i.variant]

\* ---------------------------------------------------------------------
\* C27: no step of add_to_cart, update_cart_item, remove_cart_item or
\* clear_cart, successful or not, changes the stock quantity of a variant;
\* nothing is reserved, so the carts together can hold more than the stock.
C27_CartOpsKeepStock == [][stock' = stock]_vars

\* two carts hold lines of one variant whose quantities together exceed the
\* variant's stock, and the stock is what it was at the start
C27_Witness ==
    /\ stock = [v \in Variants |-> InitStock[v]]
    /\ \E i, j \in items :
          /\ i.cart /= j.cart /\ i.variant = j.variant
          /\ i.quantity >= 1 /\ j.quantity >= 1
          /\ i.quantity + j.quantity > stock[i.variant]

\* ---------------------------------------------------------------------
\* C28: an update_cart_item or remove_cart_item naming the id of a line of
\* another cart fails and leaves every line as it was; clear_cart deletes
\* lines of the requester's cart only, and that cart is the requester's.
C28_OwnCartOnly ==
    \A p \in Procs :
        LET r == req[p] IN
        /\ (Done(p, "update") \/ Done(p, "remove"))
              /\ (\E i \in r.pre : i.id = r.item_id /\ i.cart /= r.cart)
           => r.result /= "success" /\ items = r.pre
        /\ Done(p, "clear") /\ r.result = "success"
           => /\ \A i \in r.pre : i.cart /= r.cart => i \in items
              /\ items \subseteq r.pre
              /\ carts[r.cart] = OwnerRow(r.client)

\* a signed-in user named, in an update or a removal, the id of a line of an
\* anonymous shopper's cart: the request failed and the line is as it was
C28_Witness ==
    \E p \in Procs :
        LET r == req[p] IN
        /\ (Done(p, "update") \/ Done(p, "remove"))
        /\ r.client \in Users /\ r.cart \in CartIds
        /\ r.result = Http404Caught
        /\ \E i \in items :
              /\ i.id = r.item_id /\ i.cart /= r.cart /\ i \in r.pre
              /\ carts[i.cart].user = NULL

\* a clear_cart emptied the requester's cart while another cart kept its line
C28_WitnessClear ==
    \E p \in Procs :
        LET r == req[p] IN
        /\ Done(p, "clear") /\ r.result = "success"
        /\ CartItems(r.pre, r.cart) /= {}
        /\ \E i \in items : i.cart /= r.cart

\* ---------------------------------------------------------------------
\* C29: save() generates a sku only for an empty one and keeps a given one;
\* the save of a new variant whose (shoe, colour, size) no stored variant
\* has, with no sku given, never fails on the unique-sku constraint; the
\* skus of the stored variants are distinct.
C29_GeneratedSkusDistinct ==
    /\ variantSave.kind \in {"create", "resave"} /\ variantSave.sku_before /= <<>>
       => variantSave.sku = variantSave.sku_before
    /\ variantSave.kind = "create" /\ variantSave.sku_in = <<>>
       => variantSave.clash /= "sku"
    /\ \A x, y \in shoeVariants : x.sku = y.sku => x.id = y.id

\* ---------------------------------------------------------------------
\* C30: every add_to_cart POST ends with a JSON object or a redirect, never
\* with an exception raised past the view, whatever the variant id, the
\* quantity text and the kind of request; a POST that does not succeed leaves
\* every cart line as it was.
C30_AlwaysStructured ==
    \A p \in Procs :
        LET r == req[p] IN
        Done(p, "add")
        => /\ r.result /= "crash"
           /\ r.result /= "success" => items = r.pre
====
